---- MODULE Spec2Model ----
(***************************************************************************)
(* A model of scraper.py, the NJ Transit DepartureVision scraper:          *)
(* NJTransitScraper.get_current_file_date, parse_occupancy,                *)
(* scrape_departures, save_to_csv and run.                                 *)
(*                                                                         *)
(* Text is a sequence of one-character strings, so that strip, lower,      *)
(* replace and the substring test are computed character by character.     *)
(* An optional value (the result of item.find, a missing filter) is a      *)
(* sequence of length 0 (None) or 1.  A path is the sequence of its        *)
(* components.  A datetime is a record of its calendar fields.             *)
(***************************************************************************)
EXTENDS Integers, Sequences, FiniteSets, TLC

VARIABLES
    now,                \* the wall clock in America/New_York
    destination_filter, \* self.destination_filter
    pc,                 \* position of the process: idle, fetch, parse, save
    station,            \* index in URLS of the station being scraped
    items,              \* the entries soup.find_all returned for the page
    i,                  \* index in items of the next entry of the for loop
    departures,         \* the list scrape_departures is building
    all_departures,     \* the list run is building
    files,              \* the filesystem: path -> rows of the file
    dirs,               \* the filesystem: the directories that exist
    log,                \* the lines printed by the process
    runs,               \* number of runs started so far
    file_date,          \* last value returned by get_current_file_date
    outcomes,           \* history: what became of each entry of the page
    returned,           \* history: what each scrape_departures call returned
    saved,              \* history: the arguments of the save_to_csv calls
    ioOps,              \* history: the filesystem operations of this run
    written             \* history: the writes of save_to_csv, with their time

vars == <<now, destination_filter, pc, station, items, i, departures,
          all_departures, files, dirs, log, runs, file_date, outcomes,
          returned, saved, ioOps, written>>

-----------------------------------------------------------------------------
(* Bounds of the model.                                                    *)

FirstYear == 2024
LastYear == 2024
MaxTicks == 2
MaxRuns == 2
MaxEntries == 2
MaxSections == 2
MaxDots == 2

-----------------------------------------------------------------------------
(* Optional values.                                                        *)

None == <<>>
Some(x) == <<x>>
IsNone(o) == Len(o) = 0
Get(o) == o[1]

-----------------------------------------------------------------------------
(* Python str operations, on sequences of characters.                      *)

LowerCase == <<"a","b","c","d","e","f","g","h","i","j","k","l","m",
               "n","o","p","q","r","s","t","u","v","w","x","y","z">>
UpperCase == <<"A","B","C","D","E","F","G","H","I","J","K","L","M",
               "N","O","P","Q","R","S","T","U","V","W","X","Y","Z">>

IsUpper(c) == \E k \in 1..26 : UpperCase[k] = c
IsLowerChar(c) == \E k \in 1..26 : LowerCase[k] = c
IsAlpha(c) == IsUpper(c) \/ IsLowerChar(c)
IndexIn(c, table) == CHOOSE k \in 1..26 : table[k] = c

LowerChar(c) == IF IsUpper(c) THEN LowerCase[IndexIn(c, UpperCase)] ELSE c
UpperChar(c) == IF IsLowerChar(c) THEN UpperCase[IndexIn(c, LowerCase)] ELSE c

\* str.lower()
Lower(s) == [k \in 1..Len(s) |-> LowerChar(s[k])]

IsSpace(c) == c \in {" ", "\n", "\t"}

RECURSIVE LStrip(_)
LStrip(s) == IF s # <<>> /\ IsSpace(Head(s)) THEN LStrip(Tail(s)) ELSE s

RECURSIVE RStrip(_)
RStrip(s) ==
    IF s # <<>> /\ IsSpace(s[Len(s)]) THEN RStrip(SubSeq(s, 1, Len(s) - 1))
    ELSE s

\* str.strip()
Strip(s) == RStrip(LStrip(s))

StartsWith(s, p) == Len(p) <= Len(s) /\ SubSeq(s, 1, Len(p)) = p

\* the Python test `sub in s`
Contains(sub, s) ==
    \E k \in 0..(Len(s) - Len(sub)) : SubSeq(s, k + 1, k + Len(sub)) = sub

\* str.replace(old, ''), old not empty
RECURSIVE Remove(_, _)
Remove(s, old) ==
    IF Len(s) < Len(old) THEN s
    ELSE IF StartsWith(s, old)
         THEN Remove(SubSeq(s, Len(old) + 1, Len(s)), old)
         ELSE <<Head(s)>> \o Remove(Tail(s), old)

\* str.replace('_', ' ')
ReplaceUnderscore(s) == [k \in 1..Len(s) |-> IF s[k] = "_" THEN " " ELSE s[k]]

\* str.title(): a letter that follows a non-letter is upper-cased, any other
\* letter is lower-cased
Title(s) ==
    [k \in 1..Len(s) |->
        IF k = 1 \/ ~IsAlpha(s[k - 1]) THEN UpperChar(s[k]) ELSE LowerChar(s[k])]

-----------------------------------------------------------------------------
(* datetime: calendar arithmetic as datetime does it, through proleptic    *)
(* Gregorian ordinals, and strftime.                                       *)

IsLeap(y) == y % 4 = 0 /\ (y % 100 # 0 \/ y % 400 = 0)

DaysInMonth(y, m) ==
    IF m = 2 THEN (IF IsLeap(y) THEN 29 ELSE 28)
    ELSE IF m \in {4, 6, 9, 11} THEN 30 ELSE 31

RECURSIVE DaysBeforeMonth(_, _)
DaysBeforeMonth(y, m) ==
    IF m = 1 THEN 0 ELSE DaysBeforeMonth(y, m - 1) + DaysInMonth(y, m - 1)

DaysBeforeYear(y) ==
    (y - 1) * 365 + ((y - 1) \div 4) - ((y - 1) \div 100) + ((y - 1) \div 400)

\* date.toordinal(): 0001-01-01 is day 1
Ymd2Ord(y, m, d) == DaysBeforeYear(y) + DaysBeforeMonth(y, m) + d

\* date.fromordinal()
Ord2Ymd(n) ==
    LET n0 == n - 1
        n400 == n0 \div 146097
        r400 == n0 % 146097
        n100 == r400 \div 36524
        r100 == r400 % 36524
        n4 == r100 \div 1461
        r4 == r100 % 1461
        n1 == r4 \div 365
        r1 == r4 % 365
        y == n400 * 400 + n100 * 100 + n4 * 4 + n1 + 1
    IN  IF n1 = 4 \/ n100 = 4
        THEN [year |-> y - 1, month |-> 12, day |-> 31]
        ELSE LET m == CHOOSE mm \in 1..12 :
                        /\ DaysBeforeMonth(y, mm) <= r1
                        /\ r1 < DaysBeforeMonth(y, mm) + DaysInMonth(y, mm)
             IN  [year |-> y, month |-> m, day |-> r1 - DaysBeforeMonth(y, m) + 1]

\* dt - datetime.timedelta(days=1): the wall-clock fields of the day before
MinusOneDay(dt) ==
    LET p == Ord2Ymd(Ymd2Ord(dt.year, dt.month, dt.day) - 1)
    IN  [dt EXCEPT !.year = p.year, !.month = p.month, !.day = p.day]

PlusOneDay(dt) ==
    LET p == Ord2Ymd(Ymd2Ord(dt.year, dt.month, dt.day) + 1)
    IN  [dt EXCEPT !.year = p.year, !.month = p.month, !.day = p.day]

Pad2(n) == IF n < 10 THEN "0" \o ToString(n) ELSE ToString(n)

Pad4(n) ==
    IF n < 10 THEN "000" \o ToString(n)
    ELSE IF n < 100 THEN "00" \o ToString(n)
    ELSE IF n < 1000 THEN "0" \o ToString(n)
    ELSE ToString(n)

\* dt.strftime('%Y-%m-%d')
StrfDate(dt) == Pad4(dt.year) \o "-" \o Pad2(dt.month) \o "-" \o Pad2(dt.day)

-----------------------------------------------------------------------------
(* os.path, on paths as sequences of components.                           *)

PathJoin(p, name) == p \o <<name>>
PathDirname(p) == SubSeq(p, 1, Len(p) - 1)
PathBasename(p) == p[Len(p)]

-----------------------------------------------------------------------------
(* NJTransitScraper.get_current_file_date                                  *)

FileDateOfThrough4(t) ==
    LET d == IF t.hour <= 4 THEN MinusOneDay(t) ELSE t
    IN  PathJoin(<<"departures">>, StrfDate(d))

FileDateOf(t) ==
    LET d == IF t.hour < 4 THEN MinusOneDay(t) ELSE t
    IN  PathJoin(<<"departures">>, StrfDate(d))

-----------------------------------------------------------------------------
(* The markup of a page, as BeautifulSoup presents it.  A page is the      *)
(* sequence of its departure entries (the <li data-v-403a649a class=border>*)
(* elements).  An entry has an optional destination <strong>, an optional  *)
(* line <span>, an optional <strong class=h2> and <strong class=h3>, other *)
(* descendant text nodes, and an optional occupancy <ol>, which is a       *)
(* sequence of sections, each a sequence of dots, each the sequence of the *)
(* declarations of its style attribute (empty when it has none).           *)

T_NewarkPenn ==
    <<"N","e","w","a","r","k"," ","P","e","n","n"," ",
      "S","t","a","t","i","o","n">>
T_NewarkPennRaw == <<" ">> \o T_NewarkPenn \o <<"\n">>
T_Hoboken == <<"H","o","b","o","k","e","n">>
T_Newark == <<"N","e","w","a","r","k">>
T_newark == <<"n","e","w","a","r","k">>
T_hoboken == <<"h","o","b","o","k","e","n">>
T_NEC == <<"N","E","C">>
T_Time == <<"9",":","1","5">>
T_OnTime == <<"O","n"," ","T","i","m","e">>
T_Train == <<"T","r","a","i","n">>
T_Track == <<"T","r","a","c","k">>
T_TrainRaw == <<" ">> \o T_Train \o <<" ","3","8","2","9"," ">>
T_TrackRaw == <<" ">> \o T_Track \o <<" ","2","\n">>
T_3829 == <<"3","8","2","9">>
T_2 == <<"2">>

LightStyle == "background-color: rgb(11, 102, 35)"
MediumStyle == "background-color: rgb(255, 193, 7)"
HeavyStyle == "background-color: rgb(220, 53, 69)"

DotStyles ==
    { <<>>,
      <<"width: 8px", LightStyle>>,
      <<MediumStyle>>,
      <<HeavyStyle>>,
      <<"background-color: rgb(108, 117, 125)">> }

\* all sequences over S of length at most n
RECURSIVE SeqsUpTo(_, _)
SeqsUpTo(S, n) ==
    IF n = 0 THEN { <<>> }
    ELSE LET shorter == SeqsUpTo(S, n - 1)
         IN  shorter \cup { Append(q, x) : q \in { r \in shorter : Len(r) = n - 1 }, x \in S }

Occupancies ==
    { None } \cup { Some(secs) : secs \in SeqsUpTo(SeqsUpTo(DotStyles, MaxDots), MaxSections) }

SomeOccupancy == Some(<< << <<MediumStyle>> >>, << <<HeavyStyle>> >> >>)

BaseItem ==
    [destination |-> Some(T_NewarkPennRaw), line |-> Some(T_NEC),
     time |-> Some(T_Time), status |-> Some(T_OnTime),
     texts |-> <<T_TrainRaw, T_TrackRaw>>, occupancy |-> SomeOccupancy]

\* entries that differ in their destination and line elements
DestItems ==
    { [BaseItem EXCEPT !.destination = d, !.line = l] :
        d \in { None, Some(T_NewarkPennRaw), Some(T_Hoboken) },
        l \in { None, Some(T_NEC) } }

\* entries that lack one of their optional text elements or labels, or all
TextItems ==
    { [BaseItem EXCEPT !.time = v[1], !.status = v[2], !.texts = v[3]] :
        v \in { <<None, Some(T_OnTime), <<T_TrainRaw, T_TrackRaw>> >>,
                <<Some(T_Time), None, <<T_TrainRaw, T_TrackRaw>> >>,
                <<Some(T_Time), Some(T_OnTime), <<T_TrainRaw>> >>,
                <<Some(T_Time), Some(T_OnTime), <<T_TrackRaw>> >>,
                <<Some(T_Time), Some(T_OnTime), <<>> >>,
                <<None, None, <<>> >> } }

\* entries that differ in their occupancy markup
OccItems == { [BaseItem EXCEPT !.occupancy = o] : o \in Occupancies }

ParsePages == SeqsUpTo(DestItems \cup TextItems, MaxEntries)

OccPages == { <<it>> : it \in OccItems }

Filters == { None, Some(<<>>), Some(T_Newark), Some(T_newark), Some(T_hoboken) }

-----------------------------------------------------------------------------
(* NJTransitScraper.parse_occupancy                                        *)

HasDecl(style, decl) == \E k \in 1..Len(style) : style[k] = decl

Classify(style) ==
    IF HasDecl(style, LightStyle) THEN "light"
    ELSE IF HasDecl(style, MediumStyle) THEN "medium"
    ELSE IF HasDecl(style, HeavyStyle) THEN "heavy"
    ELSE "no_data"

RECURSIVE CountDots(_, _)
CountDots(dots, class) ==
    IF dots = <<>> THEN 0
    ELSE (IF Classify(Head(dots)) = class THEN 1 ELSE 0) + CountDots(Tail(dots), class)

\* the increments of the two nested for loops, for one class
RECURSIVE CountSections(_, _)
CountSections(sections, class) ==
    IF sections = <<>> THEN 0
    ELSE CountDots(Head(sections), class) + CountSections(Tail(sections), class)

parse_occupancy(item) ==
    IF IsNone(item.occupancy)
    THEN [total_sections |-> 0, light |-> 0, medium |-> 0, heavy |-> 0, no_data |-> 0]
    ELSE LET sections == Get(item.occupancy)
         IN  [total_sections |-> Len(sections),
              light |-> CountSections(sections, "light"),
              medium |-> CountSections(sections, "medium"),
              heavy |-> CountSections(sections, "heavy"),
              no_data |-> CountSections(sections, "no_data")]

-----------------------------------------------------------------------------
(* NJTransitScraper.scrape_departures: the body of the for loop            *)

\* the descendant text nodes of an entry, in document order
TextNodes(item) ==
    item.destination \o item.line \o item.texts \o item.time \o item.status

\* item.find(text=lambda t: t and label in t)
RECURSIVE FirstContaining(_, _)
FirstContaining(nodes, label) ==
    IF nodes = <<>> THEN None
    ELSE IF Contains(label, Head(nodes)) THEN Some(Head(nodes))
    ELSE FirstContaining(Tail(nodes), label)

FindText(item, label) == FirstContaining(TextNodes(item), label)

\* text.strip().replace(label, '').strip() if text else ''
LabelValue(found, label) ==
    IF IsNone(found) THEN <<>> ELSE Strip(Remove(Strip(Get(found)), label))

\* element.text.strip() if element else ''
ElementText(el) == IF IsNone(el) THEN <<>> ELSE Strip(Get(el))

FilteredOutCaseSensitive(flt, destination) ==
    /\ ~IsNone(flt)
    /\ Get(flt) # <<>>
    /\ ~Contains(Lower(Get(flt)), destination)

\* self.destination_filter and self.destination_filter.lower() not in destination.lower()
FilteredOut(flt, destination) ==
    /\ ~IsNone(flt)
    /\ Get(flt) # <<>>
    /\ ~Contains(Lower(Get(flt)), Lower(destination))

\* datetime.datetime.now(self.eastern_tz).strftime('%Y-%m-%d %H:%M:%S'); the
\* model's clock has whole minutes, so %S is 00
Timestamp(t) == StrfDate(t) \o " " \o Pad2(t.hour) \o ":" \o Pad2(t.minute) \o ":00"

\* the value of line, or None when item.find(...) is None and .text raises
LineOf(item) == IF IsNone(item.line) THEN None ELSE Some(Strip(Get(item.line)))

DepartureRecord(item, destination, line, t, station_name) ==
    LET occupancy == parse_occupancy(item)
    IN  [timestamp |-> Timestamp(t),
         station |-> station_name,
         destination |-> destination,
         line |-> line,
         train_number |-> LabelValue(FindText(item, T_Train), T_Train),
         departure_time |-> ElementText(item.time),
         status |-> ElementText(item.status),
         track |-> LabelValue(FindText(item, T_Track), T_Track),
         car_sections |-> occupancy.total_sections,
         occupancy_light |-> occupancy.light,
         occupancy_medium |-> occupancy.medium,
         occupancy_heavy |-> occupancy.heavy,
         occupancy_no_data |-> occupancy.no_data]

\* one iteration of the loop: "error" when an exception reaches the inner
\* except clause, "filtered" at the continue, "record" at the append
ParseEntry(item, flt, t, station_name) ==
    IF IsNone(item.destination)
    THEN [kind |-> "error", rec |-> None]
    ELSE LET destination == Strip(Get(item.destination))
         IN  IF FilteredOut(flt, destination)
             THEN [kind |-> "filtered", rec |-> None]
             ELSE IF IsNone(LineOf(item))
                  THEN [kind |-> "error", rec |-> None]
                  ELSE [kind |-> "record",
                        rec |-> Some(DepartureRecord(item, destination,
                                        Get(LineOf(item)), t, station_name))]

-----------------------------------------------------------------------------
(* NJTransitScraper.URLS, in insertion order                               *)

URLS ==
    <<
       [key |-> <<"s","e","c","a","u","c","u","s","_","u","p","p","e","r">>,
        url |-> "https://www.njtransit.com/dv-to/Secaucus%20Junction%20Upper%20Level"],
       [key |-> <<"s","e","c","a","u","c","u","s","_","l","o","w","e","r">>,
        url |-> "https://www.njtransit.com/dv-to/Secaucus%20Junction%20Lower%20Level"],
       [key |-> <<"n","e","w","a","r","k">>,
        url |-> "https://www.njtransit.com/dv-to/Newark%20Penn%20Station"],
       [key |-> <<"w","a","t","s","e","s","s","i","n","g">>,
        url |-> "https://www.njtransit.com/dv-to/Watsessing%20Avenue%20Station"],
       [key |-> <<"m","a","p","l","e","w","o","o","d">>,
        url |-> "https://www.njtransit.com/dv-to/Maplewood%20Station"]
    >>

\* station_key.replace('_', ' ').title()
StationName(s) == Title(ReplaceUnderscore(URLS[s].key))

-----------------------------------------------------------------------------
(* The clock.  Time passes while requests.get blocks and between runs; the *)
(* model keeps the instants on either side of the 4am boundary.            *)

StartTime == [year |-> 2024, month |-> 2, day |-> 29, hour |-> 3, minute |-> 59]

Advance(t) ==
    IF t.hour < 4 THEN [t EXCEPT !.hour = 4, !.minute = 0]
    ELSE [PlusOneDay(t) EXCEPT !.hour = 3, !.minute = 59]

TickIndex(t) ==
    2 * (Ymd2Ord(t.year, t.month, t.day)
            - Ymd2Ord(StartTime.year, StartTime.month, StartTime.day))
    + (IF t.hour < 4 THEN 0 ELSE 1)

\* the clock values a blocking call that starts at t can end at
Later(t) == { t } \cup (IF TickIndex(t) < MaxTicks THEN { Advance(t) } ELSE {})

-----------------------------------------------------------------------------
(* NJTransitScraper.save_to_csv                                            *)

Header ==
    <<"timestamp", "station", "destination", "line", "train_number",
      "departure_time", "status", "track", "car_sections", "occupancy_light",
      "occupancy_medium", "occupancy_heavy", "occupancy_no_data">>

\* one row of pd.DataFrame(departures).to_csv(index=False)
ToRow(r) ==
    <<r.timestamp, r.station, r.destination, r.line, r.train_number,
      r.departure_time, r.status, r.track, r.car_sections, r.occupancy_light,
      r.occupancy_medium, r.occupancy_heavy, r.occupancy_no_data>>

Rows(recs) == [k \in 1..Len(recs) |-> ToRow(recs[k])]

CsvDirectoryPerDay(date) == date

\* directory = os.path.dirname(date)
CsvDirectory(date) == PathDirname(date)

\* filename = os.path.join(directory, f'departures_{os.path.basename(date)}.csv')
CsvFilename(date) ==
    PathJoin(CsvDirectory(date), "departures_" \o PathBasename(date) \o ".csv")

\* os.makedirs(directory, exist_ok=True)
MakeDirs(ds, directory) ==
    ds \cup { SubSeq(directory, 1, k) : k \in 1..Len(directory) }

CsvContentAlwaysHeader(fs, filename, recs) ==
    IF filename \in DOMAIN fs THEN fs[filename] \o <<Header>> \o Rows(recs)
    ELSE <<Header>> \o Rows(recs)

\* the rows of the file after df.to_csv: appended without a header when the
\* file exists, written with the header otherwise
CsvContent(fs, filename, recs) ==
    IF filename \in DOMAIN fs THEN fs[filename] \o Rows(recs)
    ELSE <<Header>> \o Rows(recs)

CsvMode(fs, filename) == IF filename \in DOMAIN fs THEN "append" ELSE "create"

NoFiles == [p \in {} |-> <<>>]

-----------------------------------------------------------------------------
(* NJTransitScraper.run and scrape_departures, step by step                *)

AfterReturnPcEarly(s) == IF s >= Len(URLS) - 1 THEN "save" ELSE "fetch"

\* where run goes after scrape_departures returned for station s
AfterReturnPc(s) == IF s = Len(URLS) THEN "save" ELSE "fetch"
AfterReturnStation(s) == IF s = Len(URLS) THEN s ELSE s + 1

AfterFetchErrorPcRaise(s) == "crashed"

\* where the process goes when requests.get or raise_for_status raised: the
\* outer except clause returns [] to run
AfterFetchErrorPc(s) == AfterReturnPc(s)

AfterEntryErrorPcAbort == "failed"

\* where the process goes when an entry raised: the inner except clause
\* continues with the next entry
AfterEntryErrorPc == "parse"

\* main(): a new process builds the scraper and calls run
StartRun ==
    /\ pc = "idle"
    /\ runs < MaxRuns
    /\ runs' = runs + 1
    /\ pc' = "fetch"
    /\ station' = 1
    /\ all_departures' = <<>>
    /\ departures' = <<>>
    /\ items' = <<>>
    /\ i' = 1
    /\ log' = <<>>
    /\ outcomes' = <<>>
    /\ returned' = <<>>
    /\ saved' = <<>>
    /\ ioOps' = <<>>
    /\ file_date' = None
    /\ UNCHANGED <<now, destination_filter, files, dirs, written>>

\* time passes between two runs
Tick ==
    /\ pc = "idle"
    /\ TickIndex(now) < MaxTicks
    /\ now' = Advance(now)
    /\ UNCHANGED <<destination_filter, pc, station, items, i, departures,
                   all_departures, files, dirs, log, runs, file_date, outcomes,
                   returned, saved, ioOps, written>>

\* scrape_departures: requests.get or raise_for_status raises at time t
FetchFail(t, cause) ==
    /\ pc = "fetch"
    /\ now' = t
    /\ log' = Append(log, <<"Error scraping", URLS[station].url, cause>>)
    /\ returned' = Append(returned,
            [url |-> URLS[station].url, station |-> StationName(station),
             fetched |-> FALSE, entries |-> 0, result |-> <<>>])
    /\ all_departures' = all_departures \o <<>>
    /\ pc' = AfterFetchErrorPc(station)
    /\ station' = AfterReturnStation(station)
    /\ UNCHANGED <<destination_filter, items, i, departures, files, dirs, runs,
                   file_date, outcomes, saved, ioOps, written>>

\* scrape_departures: the page arrives at time t and is parsed
FetchOk(t, page) ==
    /\ pc = "fetch"
    /\ now' = t
    /\ items' = page
    /\ i' = 1
    /\ departures' = <<>>
    /\ outcomes' = <<>>
    /\ pc' = "parse"
    /\ UNCHANGED <<destination_filter, station, all_departures, files, dirs,
                   log, runs, file_date, returned, saved, ioOps, written>>

\* scrape_departures: one iteration of the for loop
ParseItem ==
    /\ pc = "parse"
    /\ i <= Len(items)
    /\ LET r == ParseEntry(items[i], destination_filter, now, StationName(station))
       IN  /\ departures' = departures \o r.rec
           /\ outcomes' = Append(outcomes, r.kind)
           /\ log' = IF r.kind = "error"
                     THEN Append(log, <<"Error parsing departure item">>)
                     ELSE log
           /\ pc' = IF r.kind = "error" THEN AfterEntryErrorPc ELSE "parse"
    /\ i' = i + 1
    /\ UNCHANGED <<now, destination_filter, station, items, all_departures,
                   files, dirs, runs, file_date, returned, saved, ioOps, written>>

\* scrape_departures returns departures; run extends all_departures
ReturnDepartures ==
    /\ pc = "parse"
    /\ i > Len(items)
    /\ returned' = Append(returned,
            [url |-> URLS[station].url, station |-> StationName(station),
             fetched |-> TRUE, entries |-> Len(items), result |-> departures])
    /\ all_departures' = all_departures \o departures
    /\ pc' = AfterReturnPc(station)
    /\ station' = AfterReturnStation(station)
    /\ UNCHANGED <<now, destination_filter, items, i, departures, files, dirs,
                   log, runs, file_date, outcomes, saved, ioOps, written>>

\* run calls save_to_csv(all_departures); the process ends
SaveToCsv ==
    /\ pc = "save"
    /\ saved' = Append(saved, all_departures)
    /\ pc' = "idle"
    /\ IF all_departures = <<>>
       THEN UNCHANGED <<files, dirs, file_date, ioOps, written>>
       ELSE LET date == FileDateOf(now)
                directory == CsvDirectory(date)
                filename == CsvFilename(date)
            IN  /\ file_date' = Some(date)
                /\ dirs' = MakeDirs(dirs, directory)
                /\ files' = [p \in DOMAIN files \cup { filename } |->
                                IF p = filename
                                THEN CsvContent(files, filename, all_departures)
                                ELSE files[p]]
                /\ ioOps' = ioOps \o << <<"makedirs", directory>>,
                                        <<CsvMode(files, filename), filename>> >>
                /\ written' = Append(written,
                        [path |-> filename, at |-> now, existed |-> filename \in DOMAIN files,
                         rows |-> Rows(all_departures)])
    /\ UNCHANGED <<now, destination_filter, station, items, i, departures,
                   all_departures, log, runs, outcomes, returned>>

-----------------------------------------------------------------------------------------------------------------------------------------------------
(* Specifications                                                          *)

FetchCauses == { "ConnectionError", "HTTPError" }

NoDestItem == [BaseItem EXCEPT !.destination = None]

RunPages == { <<>>, <<BaseItem>>, <<NoDestItem, BaseItem>> }

InitCommon ==
    /\ station = 1
    /\ items = <<>>
    /\ i = 1
    /\ departures = <<>>
    /\ all_departures = <<>>
    /\ files = NoFiles
    /\ dirs = {}
    /\ log = <<>>
    /\ file_date = None
    /\ outcomes = <<>>
    /\ returned = <<>>
    /\ saved = <<>>
    /\ ioOps = <<>>
    /\ written = <<>>

\* Spec: repeated runs of the program on a fresh environment, while time
\* passes; within a run, once a fetch has failed the later ones fail too.
Init ==
    /\ InitCommon
    /\ now = StartTime
    /\ destination_filter = None
    /\ pc = "idle"
    /\ runs = 0

NoOutage == \A k \in 1..Len(returned) : returned[k].fetched

Next ==
    \/ StartRun
    \/ Tick
    \/ \E t \in Later(now) : FetchFail(t, "HTTPError")
    \/ NoOutage /\ \E t \in Later(now) : FetchOk(t, <<BaseItem>>)
    \/ ParseItem
    \/ ReturnDepartures
    \/ SaveToCsv

Spec == Init /\ [][Next]_vars

\* SpecRun: one run of the program, with any outcome of each fetch, while
\* time passes
InitRun ==
    /\ InitCommon
    /\ now = StartTime
    /\ destination_filter \in { None, Some(T_hoboken) }
    /\ pc = "fetch"
    /\ runs = 1

NextRun ==
    \/ \E t \in Later(now), cause \in FetchCauses : FetchFail(t, cause)
    \/ \E t \in Later(now), page \in RunPages : FetchOk(t, page)
    \/ ParseItem
    \/ ReturnDepartures
    \/ SaveToCsv

SpecRun == InitRun /\ [][NextRun]_vars

\* SpecParse: one call of scrape_departures on any page, with any filter
InitParse ==
    /\ InitCommon
    /\ now = StartTime
    /\ destination_filter \in Filters
    /\ pc = "fetch"
    /\ runs = 1

NextParse ==
    /\ station = 1
    /\ \/ \E page \in ParsePages : FetchOk(now, page)
       \/ ParseItem
       \/ ReturnDepartures

SpecParse == InitParse /\ [][NextParse]_vars

\* SpecOcc: one call of scrape_departures on an entry with any occupancy
\* markup
NextOcc ==
    /\ station = 1
    /\ \/ \E page \in OccPages : FetchOk(now, page)
       \/ ParseItem
       \/ ReturnDepartures

SpecOcc == InitParse /\ [][NextOcc]_vars

\* SpecDate: one run of the program at any time of any day, in which the
\* last station has a departure
Datetimes ==
    { [year |-> y, month |-> m, day |-> d, hour |-> h, minute |-> mi] :
        y \in FirstYear..LastYear, m \in 1..12, d \in 1..31,
        h \in 0..23, mi \in {0, 59} }

InitDate ==
    /\ InitCommon
    /\ now \in { t \in Datetimes : t.day <= DaysInMonth(t.year, t.month) }
    /\ destination_filter = None
    /\ pc = "fetch"
    /\ runs = 1

NextDate ==
    \/ station < Len(URLS) /\ FetchFail(now, "ConnectionError")
    \/ station = Len(URLS) /\ FetchOk(now, <<BaseItem>>)
    \/ ParseItem
    \/ ReturnDepartures
    \/ SaveToCsv

SpecDate == InitDate /\ [][NextDate]_vars

-----------------------------------------------------------------------------
(* The calendar and the file layout as the specification states them,      *)
(* written without the operators of the model above.                       *)

Digits == <<"0", "1", "2", "3", "4", "5", "6", "7", "8", "9">>
Digit(n) == Digits[n + 1]

\* YYYY-MM-DD
IsoDate(t) ==
    Digit(t.year \div 1000) \o Digit((t.year \div 100) % 10)
        \o Digit((t.year \div 10) % 10) \o Digit(t.year % 10)
        \o "-" \o Digit(t.month \div 10) \o Digit(t.month % 10)
        \o "-" \o Digit(t.day \div 10) \o Digit(t.day % 10)

MonthLength(y, m) ==
    CASE m \in {1, 3, 5, 7, 8, 10, 12} -> 31
      [] m \in {4, 6, 9, 11} -> 30
      [] OTHER -> IF (y % 4 = 0 /\ y % 100 # 0) \/ y % 400 = 0 THEN 29 ELSE 28

PreviousCalendarDate(t) ==
    IF t.day > 1 THEN [t EXCEPT !.day = t.day - 1]
    ELSE IF t.month > 1
         THEN [t EXCEPT !.month = t.month - 1,
                        !.day = MonthLength(t.year, t.month - 1)]
         ELSE [t EXCEPT !.year = t.year - 1, !.month = 12, !.day = 31]

\* the service day of a moment: the day ends at 04:00
ServiceDay(t) == IF t.hour \in 0..3 THEN PreviousCalendarDate(t) ELSE t

\* departures/<D>/departures_<D>.csv
PerDayPath(D) == <<"departures", D, "departures_" \o D \o ".csv">>

\* departures/departures_<D>.csv
FlatPath(D) == <<"departures", "departures_" \o D \o ".csv">>

IsSuffix(q, r) == Len(q) <= Len(r) /\ SubSeq(r, Len(r) - Len(q) + 1, Len(r)) = q
IsPrefix(q, r) == Len(q) <= Len(r) /\ SubSeq(r, 1, Len(q)) = q

-----------------------------------------------------------------------------
(* C3 (SpecDate): the service-day bucket get_current_file_date computes is *)
(* the previous calendar date for every local time with hour 0..3 and the  *)
(* current calendar date from 04:00 on: whenever save_to_csv runs with     *)
(* records, the value it gets from get_current_file_date names the         *)
(* service day of the current moment.                                      *)
C3_ServiceDayBucket ==
    [][(pc = "save" /\ all_departures # <<>>)
        => file_date' = Some(<<"departures", IsoDate(ServiceDay(now))>>)]_vars

\* 03:59 on the first of January went to the 31st of December of the year
\* before
C3_Witness ==
    /\ pc = "idle"
    /\ now.month = 1 /\ now.day = 1 /\ now.hour = 3 /\ now.minute = 59
    /\ file_date = Some(<<"departures",
            IsoDate([now EXCEPT !.year = now.year - 1, !.month = 12, !.day = 31])>>)

-----------------------------------------------------------------------------
(* C2, as stated (SpecDate): every write of save_to_csv at a moment of     *)
(* service day D goes to departures/<D>/departures_<D>.csv, in a per-day   *)
(* directory.                                                              *)
C2_PerDayDirectory ==
    \A k \in 1..Len(written) :
        LET f == PerDayPath(IsoDate(ServiceDay(written[k].at)))
        IN  /\ f \in DOMAIN files
            /\ IsSuffix(written[k].rows, files[f])
            /\ PathDirname(f) \in dirs

(* C2, amended (SpecDate): every write of save_to_csv at a moment of       *)
(* service day D goes to departures/departures_<D>.csv, D formatted        *)
(* YYYY-MM-DD: the files lie directly in the directory departures, which   *)
(* is the only directory created.                                          *)
C2_FlatPath ==
    /\ \A k \in 1..Len(written) :
        LET f == FlatPath(IsoDate(ServiceDay(written[k].at)))
        IN  /\ f \in DOMAIN files
            /\ IsSuffix(written[k].rows, files[f])
    /\ DOMAIN files =
        { FlatPath(IsoDate(ServiceDay(written[k].at))) : k \in 1..Len(written) }
    /\ (written # <<>> => dirs = { <<"departures">> })
    /\ (written = <<>> => dirs = {})

\* a write in the first nine days of a month before October, before 04:00
C2_Witness ==
    /\ Len(written) = 1
    /\ written[1].at.hour < 4
    /\ written[1].at.month < 10
    /\ written[1].at.day \in 2..9
    /\ FlatPath(IsoDate(PreviousCalendarDate(written[1].at))) \in DOMAIN files

-----------------------------------------------------------------------------
(* The content of a daily file, from the history of the writes.            *)

RECURSIVE RowsWrittenTo(_, _)
RowsWrittenTo(f, ws) ==
    IF ws = <<>> THEN <<>>
    ELSE (IF Head(ws).path = f THEN Head(ws).rows ELSE <<>>)
            \o RowsWrittenTo(f, Tail(ws))

HeaderCount(rows) == Cardinality({ k \in 1..Len(rows) : rows[k] = Header })

C4_FileContent ==
    /\ DOMAIN files = { written[k].path : k \in 1..Len(written) }
    /\ \A f \in DOMAIN files :
        /\ files[f] = <<Header>> \o RowsWrittenTo(f, written)
        /\ HeaderCount(files[f]) = 1

C4_AppendOnly ==
    \A f \in DOMAIN files :
        /\ f \in DOMAIN files'
        /\ IsPrefix(files[f], files'[f])
        /\ HeaderCount(files'[f]) = HeaderCount(files[f])

(* C4 (Spec): from an environment with no daily file, after any sequence   *)
(* of runs, each daily file holds exactly one header row, as its first     *)
(* row, followed by the rows of every non-empty run that wrote to it, in   *)
(* run order; only the run that creates the file writes the header, and    *)
(* no run rewrites or removes earlier rows.                                *)
C4_OneHeaderRowsInRunOrder == [](C4_FileContent) /\ [][C4_AppendOnly]_vars

\* two non-empty runs of the same service day have written to one file
C4_Witness ==
    \E f \in DOMAIN files :
        /\ runs = 2
        /\ pc = "idle"
        /\ Len(written) = 2
        /\ written[1].path = f /\ written[2].path = f
        /\ ~written[1].existed /\ written[2].existed
        /\ Len(files[f]) = 1 + Len(written[1].rows) + Len(written[2].rows)

-----------------------------------------------------------------------------
(* The collection run builds from what scrape_departures returned.         *)

RECURSIVE ConcatResults(_)
ConcatResults(rs) ==
    IF rs = <<>> THEN <<>> ELSE Head(rs).result \o ConcatResults(Tail(rs))

(* C7 (SpecRun): scrape_departures never propagates an exception to run: a *)
(* station whose fetch fails, or whose page has no departure entry, yields *)
(* the empty list, and run still scrapes every remaining station and       *)
(* passes their records to save_to_csv.                                    *)
C7_NoExceptionReachesRun ==
    /\ pc \in { "idle", "fetch", "parse", "save" }
    /\ \A k \in 1..Len(returned) :
        (~returned[k].fetched \/ returned[k].entries = 0) => returned[k].result = <<>>
    /\ (pc \in { "fetch", "parse" } => station = Len(returned) + 1)
    /\ (pc \in { "save", "idle" } => Len(returned) = Len(URLS))
    /\ (pc = "idle" =>
            /\ Len(saved) = 1
            /\ \A k \in 1..Len(returned) :
                \A j \in 1..Len(returned[k].result) :
                    \E n \in 1..Len(saved[1]) : saved[1][n] = returned[k].result[j])

\* a run in which a fetch failed, one page had no entry, and a later
\* station's records were saved
C7_Witness ==
    /\ pc = "idle"
    /\ Len(saved) = 1
    /\ \E a, b, c \in 1..Len(returned) :
        /\ a < c /\ b < c
        /\ ~returned[a].fetched
        /\ returned[b].fetched /\ returned[b].entries = 0
        /\ returned[c].result # <<>>
        /\ \E n \in 1..Len(saved[1]) : saved[1][n] = returned[c].result[1]

-----------------------------------------------------------------------------
(* The station table and the file writes of a run.                         *)

StationUrls ==
    <<"https://www.njtransit.com/dv-to/Secaucus%20Junction%20Upper%20Level",
      "https://www.njtransit.com/dv-to/Secaucus%20Junction%20Lower%20Level",
      "https://www.njtransit.com/dv-to/Newark%20Penn%20Station",
      "https://www.njtransit.com/dv-to/Watsessing%20Avenue%20Station",
      "https://www.njtransit.com/dv-to/Maplewood%20Station">>

FileWrites == { k \in 1..Len(ioOps) : ioOps[k][1] \in { "create", "append" } }

(* C10 (SpecRun): one run visits each of the five stations exactly once,   *)
(* in table order, calls save_to_csv exactly once, after the last station, *)
(* with the concatenation of the stations' record lists in station order;  *)
(* with an empty collection save_to_csv does nothing to the filesystem, so *)
(* a run appends to at most one file, at most once.                        *)
C10_OneRunOneSave ==
    /\ Len(returned) <= Len(StationUrls)
    /\ \A k \in 1..Len(returned) : returned[k].url = StationUrls[k]
    /\ Len(saved) <= 1
    /\ (pc = "idle" <=> Len(saved) = 1)
    /\ (Len(saved) = 1 =>
            /\ Len(returned) = Len(StationUrls)
            /\ saved[1] = ConcatResults(returned)
            /\ (saved[1] = <<>> => ioOps = <<>> /\ files = NoFiles /\ dirs = {})
            /\ (saved[1] # <<>> => Cardinality(FileWrites) = 1))
    /\ (Len(saved) = 0 => ioOps = <<>> /\ files = NoFiles /\ dirs = {})

\* a run that saved the records of two stations, a failed station in between
C10_Witness ==
    /\ pc = "idle"
    /\ Len(saved) = 1
    /\ returned[1].result # <<>>
    /\ ~returned[2].fetched
    /\ returned[3].result # <<>>
    /\ Len(saved[1]) = Len(returned[1].result) + Len(returned[3].result)
    /\ Cardinality(FileWrites) = 1

-----------------------------------------------------------------------------
(* The values the clock takes.                                             *)

RECURSIVE ClockFrom(_, _)
ClockFrom(t, n) == IF n = 0 THEN { t } ELSE { t } \cup ClockFrom(Advance(t), n - 1)

ClockValues == ClockFrom(StartTime, MaxTicks)

(* C8, as stated (SpecRun): every row of the daily file of bucket D has a  *)
(* capture timestamp whose own service day is D.                           *)
C8_RowsBelongToBucket ==
    \A f \in DOMAIN files :
        \A k \in 2..Len(files[f]) :
            \A t \in ClockValues :
                files[f][k][1] = Timestamp(t)
                    => PathBasename(f) = "departures_" \o IsoDate(ServiceDay(t)) \o ".csv"

-----------------------------------------------------------------------------
(* The destination filter as the specification states it: the filter is a  *)
(* substring of the destination text, letter case ignored.                 *)

Letters == <<"a","b","c","d","e","f","g","h","i","j","k","l","m",
             "n","o","p","q","r","s","t","u","v","w","x","y","z">>
Capitals == <<"A","B","C","D","E","F","G","H","I","J","K","L","M",
              "N","O","P","Q","R","S","T","U","V","W","X","Y","Z">>

SameLetter(a, b) ==
    \/ a = b
    \/ \E k \in 1..26 : { a, b } = { Letters[k], Capitals[k] }

SubstringIgnoringCase(f, d) ==
    \E off \in 0..(Len(d) - Len(f)) :
        \A j \in 1..Len(f) : SameLetter(f[j], d[off + j])

\* an entry's destination text, without the surrounding white space
DestinationText(it) ==
    LET raw == it.destination[1]
        first == CHOOSE a \in 1..Len(raw) :
                    ~IsSpace(raw[a]) /\ \A b \in 1..(a - 1) : IsSpace(raw[b])
        last == CHOOSE a \in 1..Len(raw) :
                    ~IsSpace(raw[a]) /\ \A b \in (a + 1)..Len(raw) : IsSpace(raw[b])
    IN  SubSeq(raw, first, last)

Retained(flt, it) ==
    flt # None => SubstringIgnoringCase(flt[1], DestinationText(it))

ErrorLines == { k \in 1..Len(log) : log[k] = <<"Error parsing departure item">> }

-----------------------------------------------------------------------------
(* One iteration of the loop on an entry that has destination text.        *)
C5_FilterStep ==
    (pc = "parse" /\ i <= Len(items) /\ items[i].destination # None) =>
        /\ outcomes'[i] = "filtered" <=> ~Retained(destination_filter, items[i])
        /\ (destination_filter \in { Some(T_Newark), Some(T_newark) } =>
                /\ DestinationText(items[i]) = T_NewarkPenn => outcomes'[i] # "filtered"
                /\ DestinationText(items[i]) = T_Hoboken => outcomes'[i] = "filtered")
        /\ (outcomes'[i] = "filtered" => departures' = departures /\ log' = log)

(* C5 (SpecParse): with a filter F, an entry with destination text is      *)
(* retained exactly when lowercase(F) is a substring of the lower-cased    *)
(* destination: "Newark" and "newark" both retain "Newark Penn Station"    *)
(* and exclude "Hoboken"; an excluded entry gives no record and is not     *)
(* processed further, so that nothing it lacks is logged as an error.      *)
C5_FilterIgnoresCase == [][C5_FilterStep]_vars

\* the filter "newark" kept "Newark Penn Station" and dropped a "Hoboken"
\* entry that has no line element, without logging an error
C5_Witness ==
    /\ destination_filter = Some(T_newark)
    /\ Len(outcomes) = 2
    /\ items[1].destination = Some(T_NewarkPennRaw) /\ outcomes[1] = "record"
    /\ items[2].destination = Some(T_Hoboken) /\ items[2].line = None
    /\ outcomes[2] = "filtered"
    /\ Len(departures) = 1
    /\ log = <<>>

-----------------------------------------------------------------------------
(* One iteration of the loop on an entry the filter retains.               *)

HasLabel(it, label) ==
    \E k \in 1..Len(it.texts) : Contains(label, it.texts[k])

C6_Step ==
    (/\ pc = "parse" /\ i <= Len(items)
     /\ items[i].destination # None
     /\ Retained(destination_filter, items[i])) =>
        /\ Len(departures') = Len(departures) + 1
        /\ LET r == departures'[Len(departures')]
               it == items[i]
           IN  /\ (it.line = None => r.line = <<>>)
               /\ (it.time = None => r.departure_time = <<>>)
               /\ (it.status = None => r.status = <<>>)
               /\ (~HasLabel(it, T_Train) => r.train_number = <<>>)
               /\ (~HasLabel(it, T_Track) => r.track = <<>>)

(* C6, as stated (SpecParse): an entry that has destination text and       *)
(* passes the filter is emitted as a record, in which each of line, train  *)
(* number, departure time, status and track whose element or label is      *)
(* missing is the empty string.                                            *)
C6_MissingFieldsAreEmpty == [][C6_Step]_vars

-----------------------------------------------------------------------------
(* One iteration of the loop, on any entry.                                *)

Extractable(it) == it.destination # None /\ it.line # None

C9_Return ==
    (pc = "parse" /\ i > Len(items)) =>
        /\ Len(returned') = Len(returned) + 1
        /\ returned'[Len(returned')].result = departures

C9_Iteration ==
    (pc = "parse" /\ i <= Len(items)) =>
        /\ pc' = "parse"
        /\ i' = i + 1
        /\ items' = items
        /\ IsPrefix(departures, departures')
        /\ IF Extractable(items[i]) /\ Retained(destination_filter, items[i])
           THEN /\ Len(departures') = Len(departures) + 1
                /\ departures'[Len(departures')].destination = DestinationText(items[i])
                /\ departures'[Len(departures')].train_number
                        = (IF HasLabel(items[i], T_Train) THEN T_3829 ELSE <<>>)
                /\ departures'[Len(departures')].track
                        = (IF HasLabel(items[i], T_Track) THEN T_2 ELSE <<>>)
           ELSE departures' = departures
        /\ (~Extractable(items[i]) /\ (items[i].destination = None
                \/ Retained(destination_filter, items[i]))
                => log' = Append(log, <<"Error parsing departure item">>))

(* C9 (SpecParse): within one page, an entry whose extraction fails is the *)
(* only entry skipped: each iteration of the loop goes on to the next      *)
(* entry, every entry that has its required elements and passes the filter *)
(* adds exactly one record, its own, at the end of the list, no iteration  *)
(* removes or reorders the records of the earlier entries, and the list is *)
(* what scrape_departures returns.                                         *)
C9_OnlyFailingEntrySkipped == [][C9_Iteration /\ C9_Return]_vars

\* an entry without destination was skipped and the entry after it recorded
C9_Witness ==
    /\ pc = "parse"
    /\ Len(items) = 2 /\ i = 3
    /\ items[1].destination = None
    /\ outcomes = <<"error", "record">>
    /\ Len(departures) = 1
    /\ Cardinality(ErrorLines) = 1

-----------------------------------------------------------------------------
(* C1, as stated (SpecOcc): in every record scrape_departures produces,    *)
(* occupancy_light + occupancy_medium + occupancy_heavy +                  *)
(* occupancy_no_data equals car_sections, whatever the entry's occupancy   *)
(* markup.                                                                 *)
C1_OccupancyCountsSum ==
    \A k \in 1..Len(departures) :
        departures[k].occupancy_light + departures[k].occupancy_medium
            + departures[k].occupancy_heavy + departures[k].occupancy_no_data
        = departures[k].car_sections

====
